---- MODULE Spec2Model ----
(***************************************************************************)
(* SmartTask AI backend (src/app.py): the task store (tasks.json), the     *)
(* profile plan, the HTTP handlers that change them, and the command       *)
(* interpreter ai_process behind /api/query.                               *)
(*                                                                         *)
(* Strings that the interpreter matches on (the query text, task names)    *)
(* are sequences of one-character strings, so that lower(), strip(),       *)
(* replace(), startswith() and the substring test are computed as Python   *)
(* computes them.  Times are integers counting instants; a day has DayLen  *)
(* instants.  A deadline is [kind, t]: kind "naive" (no UTC offset),       *)
(* "aware" (with a UTC offset, taken as +00:00) or "bad" (a string         *)
(* datetime.fromisoformat rejects).                                        *)
(***************************************************************************)
EXTENDS Integers, Sequences, FiniteSets, TLC

VARIABLES tasks, profile, clock, last, reqs

vars == <<tasks, profile, clock, last, reqs>>

(***************************************************************************)
(* Bounds of the model.                                                    *)
(***************************************************************************)
\* instants per calendar day (the resolution of the model's clock)
DayLen == 2
\* how many instants the wall clock may advance during a run
MaxClock == 3
\* how many tasks the store may hold (POST is not taken beyond it)
MaxTasks == 2

\* timedelta(days=7), the width of the "minggu" window
WeekDays == 7

(***************************************************************************)
(* Python string operations on sequences of characters.                    *)
(***************************************************************************)
LowerChar(c) ==
  CASE c = "A" -> "a" [] c = "B" -> "b" [] c = "C" -> "c" [] c = "D" -> "d"
    [] c = "E" -> "e" [] c = "F" -> "f" [] c = "G" -> "g" [] c = "H" -> "h"
    [] c = "I" -> "i" [] c = "J" -> "j" [] c = "K" -> "k" [] c = "L" -> "l"
    [] c = "M" -> "m" [] c = "N" -> "n" [] c = "O" -> "o" [] c = "P" -> "p"
    [] c = "Q" -> "q" [] c = "R" -> "r" [] c = "S" -> "s" [] c = "T" -> "t"
    [] c = "U" -> "u" [] c = "V" -> "v" [] c = "W" -> "w" [] c = "X" -> "x"
    [] c = "Y" -> "y" [] c = "Z" -> "z" [] OTHER -> c

\* str.lower()
RECURSIVE Lower(_)
Lower(s) == IF s = <<>> THEN <<>> ELSE <<LowerChar(Head(s))>> \o Lower(Tail(s))

IsSpace(c) == c \in {" ", "\t", "\n"}

RECURSIVE LStrip(_)
LStrip(s) == IF s # <<>> /\ IsSpace(Head(s)) THEN LStrip(Tail(s)) ELSE s

RECURSIVE RStrip(_)
RStrip(s) ==
  IF s # <<>> /\ IsSpace(s[Len(s)]) THEN RStrip(SubSeq(s, 1, Len(s) - 1)) ELSE s

\* str.strip()
Strip(s) == RStrip(LStrip(s))

\* str.startswith(p)
StartsWith(s, p) == Len(p) <= Len(s) /\ SubSeq(s, 1, Len(p)) = p

\* "sub in s"
Contains(s, sub) ==
  \E i \in 0..(Len(s) - Len(sub)) : SubSeq(s, i + 1, i + Len(sub)) = sub

\* s.replace(old, ""): every non-overlapping occurrence, left to right
RECURSIVE RemoveAll(_, _)
RemoveAll(s, old) ==
  IF Len(s) < Len(old) THEN s
  ELSE IF SubSeq(s, 1, Len(old)) = old
       THEN RemoveAll(SubSeq(s, Len(old) + 1, Len(s)), old)
       ELSE <<Head(s)>> \o RemoveAll(Tail(s), old)

(***************************************************************************)
(* The keywords of ai_process.                                             *)
(***************************************************************************)
kw_halo == <<"h","a","l","o">>
kw_hai == <<"h","a","i">>
kw_hello == <<"h","e","l","l","o">>
kw_hi == <<"h","i">>
kw_siapa_kamu == <<"s","i","a","p","a"," ","k","a","m","u">>
kw_kamu_siapa == <<"k","a","m","u"," ","s","i","a","p","a">>
kw_apa_kabar == <<"a","p","a"," ","k","a","b","a","r">>
kw_hapus == <<"h","a","p","u","s">>
kw_selesai == <<"s","e","l","e","s","a","i">>
kw_terdekat == <<"t","e","r","d","e","k","a","t">>
kw_deadline_terdekat ==
  <<"d","e","a","d","l","i","n","e"," ","t","e","r","d","e","k","a","t">>
kw_minggu == <<"m","i","n","g","g","u">>
kw_besok == <<"b","e","s","o","k">>
kw_berapa == <<"b","e","r","a","p","a">>
kw_jumlah == <<"j","u","m","l","a","h">>
kw_tampilkan == <<"t","a","m","p","i","l","k","a","n">>
kw_semua == <<"s","e","m","u","a">>
kw_daftar == <<"d","a","f","t","a","r">>

(***************************************************************************)
(* Values.                                                                 *)
(***************************************************************************)
\* a JSON name that is not a string (null, a number): PATCH stores it as is
NullName == <<"<null>">>

NameIsStr(t) == t.name # NullName

Naive(t) == [kind |-> "naive", t |-> t]
Aware(t) == [kind |-> "aware", t |-> t]

\* parse_dt / datetime.fromisoformat on a stored deadline: None for "bad"
parse_dt(t) == t.deadline.kind # "bad"

\* strftime("%d %B %Y") shows the calendar day; an unparseable string is echoed
format_date_iso(d) ==
  IF d.kind = "bad" THEN <<"raw", d.t>> ELSE <<"date", d.t \div DayLen>>

\* datetime.now() with the time of day cleared
today_start(now) == (now \div DayLen) * DayLen

(***************************************************************************)
(* The result of ai_process: the rule that ran, its outcome, the reply     *)
(* (kind of sentence and what is filled into it), the _save marker,        *)
(* whether an exception escaped, and the caller's list after the call.     *)
(***************************************************************************)
Reply(kind, names, dates, n, extra) ==
  [kind |-> kind, names |-> names, dates |-> dates, n |-> n, extra |-> extra]

NoReply == Reply("none", <<>>, <<>>, 0, <<>>)

Plain(rule, kind, mem) ==
  [rule |-> rule, branch |-> kind, reply |-> Reply(kind, <<>>, <<>>, 0, <<>>),
   save |-> FALSE, raised |-> FALSE, mem |-> mem]

Answer(rule, kind, names, dates, n, extra, mem) ==
  [rule |-> rule, branch |-> kind, reply |-> Reply(kind, names, dates, n, extra),
   save |-> FALSE, raised |-> FALSE, mem |-> mem]

Mutation(rule, kind, names, mem) ==
  [rule |-> rule, branch |-> kind, reply |-> Reply(kind, names, <<>>, 0, <<>>),
   save |-> TRUE, raised |-> FALSE, mem |-> mem]

\* an exception leaves ai_process: no reply
Raise(rule, mem) ==
  [rule |-> rule, branch |-> "raise", reply |-> NoReply,
   save |-> FALSE, raised |-> TRUE, mem |-> mem]

NoRes ==
  [rule |-> 0, branch |-> "none", reply |-> NoReply,
   save |-> FALSE, raised |-> FALSE, mem |-> <<>>]

Least(S) == CHOOSE i \in S : \A j \in S : i <= j

\* list.remove(x): drops the first element equal to x
ListRemove(ts, x) ==
  LET i == Least({k \in 1..Len(ts) : ts[k] = x})
  IN  SubSeq(ts, 1, i - 1) \o SubSeq(ts, i + 1, Len(ts))

NamesOf(ts) == [i \in 1..Len(ts) |-> ts[i].name]
DatesOf(ts) == [i \in 1..Len(ts) |-> format_date_iso(ts[i].deadline)]

(***************************************************************************)
(* Rules 1-3: small talk.                                                  *)
(***************************************************************************)
IsGreeting(text) ==
  \E w \in {kw_halo, kw_hai, kw_hello, kw_hi} : Contains(text, w)

IsIdentity(text) ==
  Contains(text, kw_siapa_kamu) \/ Contains(text, kw_kamu_siapa)

IsWellBeing(text) == Contains(text, kw_apa_kabar)

(***************************************************************************)
(* Rule 4: hapus.  The list comprehension lowers every task's name, so a   *)
(* name that is not a string raises before anything is removed.            *)
(***************************************************************************)
hapus_name(text) == Strip(RemoveAll(text, kw_hapus))

rule_hapus(text, ts) ==
  LET name == hapus_name(text)
  IN  IF \E i \in 1..Len(ts) : ~NameIsStr(ts[i]) THEN Raise(4, ts)
      ELSE LET found == SelectSeq(ts, LAMBDA t : Contains(Lower(t.name), name))
           IN  IF Len(found) = 1
               THEN Mutation(4, "deleted", <<found[1].name>>,
                             ListRemove(ts, found[1]))
               ELSE IF Len(found) > 1
               THEN Answer(4, "ambiguous", <<>>, <<>>, Len(found), <<>>, ts)
               ELSE Answer(4, "notfound", <<name>>, <<>>, 0, <<>>, ts)

(***************************************************************************)
(* Rule 5: selesai.  next() stops at the first task whose name contains    *)
(* the remainder; a non-string name met before it raises.                  *)
(***************************************************************************)
selesai_name(text) == Strip(RemoveAll(text, kw_selesai))

\* the scan "first t in ts that matches", M being the positions of the tasks
\* that match; .lower() raises on a non-string name: 0 when the scan ends
\* without a hit, -1 when it raises
FirstHit(ts, M) ==
  LET N == {i \in 1..Len(ts) : ~NameIsStr(ts[i])}
  IN  IF N # {} /\ (M = {} \/ Least(N) < Least(M)) THEN -1
      ELSE IF M # {} THEN Least(M) ELSE 0

rule_selesai(text, ts) ==
  LET name == selesai_name(text)
      f == FirstHit(ts, {i \in 1..Len(ts) :
                 NameIsStr(ts[i]) /\ Contains(Lower(ts[i].name), name)})
  IN  IF f = -1 THEN Raise(5, ts)
      ELSE IF f > 0
      THEN Mutation(5, "done", <<ts[f].name>>, [ts EXCEPT ![f].done = TRUE])
      ELSE Answer(5, "notfound", <<name>>, <<>>, 0, <<>>, ts)

(***************************************************************************)
(* Rule 6: terdekat.  The sort compares the parsed deadlines with "<";     *)
(* Python refuses to compare an offset-naive with an offset-aware          *)
(* datetime (TypeError), and the sort is not inside a try.                 *)
(***************************************************************************)
RECURSIVE InsertByDeadline(_, _)
InsertByDeadline(x, s) ==
  IF s = <<>> THEN <<x>>
  ELSE IF x.deadline.t < s[Len(s)].deadline.t
       THEN InsertByDeadline(x, SubSeq(s, 1, Len(s) - 1)) \o <<s[Len(s)]>>
       ELSE s \o <<x>>

\* list.sort(key=parse_dt): stable, ascending
RECURSIVE SortByDeadline(_)
SortByDeadline(s) ==
  IF s = <<>> THEN <<>>
  ELSE InsertByDeadline(s[Len(s)], SortByDeadline(SubSeq(s, 1, Len(s) - 1)))

MixedKinds(s) ==
  \E i, j \in 1..Len(s) : s[i].deadline.kind # s[j].deadline.kind

rule_terdekat(ts) ==
  LET notdone == SelectSeq(ts, LAMBDA t : ~t.done)
      upcoming == SelectSeq(notdone, parse_dt)
  IN  IF upcoming = <<>> THEN Plain(6, "nonearest", ts)
      ELSE IF MixedKinds(upcoming) THEN Raise(6, ts)
      ELSE LET t == SortByDeadline(upcoming)[1]
           IN  Answer(6, "nearest", <<t.name>>,
                      <<format_date_iso(t.deadline)>>, 0, <<>>, ts)

(***************************************************************************)
(* Rule 7: minggu.  "now <= d <= end" sits inside the try: an unparseable  *)
(* deadline and an offset-aware one (TypeError against the naive now) are  *)
(* both skipped.                                                           *)
(***************************************************************************)
InWeek(t, now) ==
  /\ t.deadline.kind = "naive"
  /\ today_start(now) <= t.deadline.t
  /\ t.deadline.t <= today_start(now) + WeekDays * DayLen
  /\ ~t.done

rule_minggu(ts, now) ==
  LET lst == SelectSeq(ts, LAMBDA t : InWeek(t, now))
  IN  IF lst = <<>> THEN Plain(7, "noweek", ts)
      ELSE Answer(7, "week", NamesOf(lst), DatesOf(lst), 0, <<>>, ts)

(***************************************************************************)
(* Rule 8: besok.  d.date() == tom.date() compares calendar days only.     *)
(***************************************************************************)
IsTomorrow(t, now) ==
  /\ t.deadline.kind # "bad"
  /\ t.deadline.t \div DayLen = (today_start(now) + DayLen) \div DayLen
  /\ ~t.done

rule_besok(ts, now) ==
  LET lst == SelectSeq(ts, LAMBDA t : IsTomorrow(t, now))
  IN  IF lst = <<>> THEN Plain(8, "notomorrow", ts)
      ELSE Answer(8, "tomorrow", NamesOf(lst), <<>>, 0, <<>>, ts)

(***************************************************************************)
(* Rules 9-12: count, list, lookup by name, fallback.                      *)
(***************************************************************************)
rule_count(ts) ==
  Answer(9, "count", <<>>, <<>>, Len(SelectSeq(ts, LAMBDA t : ~t.done)), <<>>, ts)

IsPro(prof) == prof.plan = "pro"

rule_list(ts, prof) ==
  IF ts = <<>> THEN Plain(10, "empty", ts)
  ELSE IF IsPro(prof)
  THEN Answer(10, "list_pro", NamesOf(ts), DatesOf(ts), 0,
              [i \in 1..Len(ts) |-> <<"upper", ts[i].priority, ts[i].note>>], ts)
  ELSE Answer(10, "list", NamesOf(ts), DatesOf(ts), 0, <<>>, ts)

\* falls through to the fallback when no task's lowered name is in the text
rule_lookup(text, ts, prof) ==
  LET f == FirstHit(ts, {i \in 1..Len(ts) :
                 NameIsStr(ts[i]) /\ Contains(text, Lower(ts[i].name))})
  IN  IF f = -1 THEN Raise(11, ts)
      ELSE IF f = 0 THEN Plain(12, "fallback", ts)
      ELSE IF IsPro(prof)
      THEN Answer(11, "lookup_pro", <<ts[f].name>>,
                  <<format_date_iso(ts[f].deadline)>>, 0,
                  <<<<"plain", ts[f].priority, ts[f].note>>>>, ts)
      ELSE Answer(11, "lookup", <<ts[f].name>>,
                  <<format_date_iso(ts[f].deadline)>>, 0, <<>>, ts)

IsCount(text) == Contains(text, kw_berapa) \/ Contains(text, kw_jumlah)

IsList(text) ==
  \E w \in {kw_tampilkan, kw_semua, kw_daftar} : Contains(text, w)

IsNearest(text) ==
  Contains(text, kw_terdekat) \/ Contains(text, kw_deadline_terdekat)

(***************************************************************************)
(* ai_process(q, tasks, profile); now is what datetime.now() returns       *)
(* inside it.                                                              *)
(***************************************************************************)
Queries(text, ts, prof, now) ==
  IF IsNearest(text) THEN rule_terdekat(ts)
  ELSE IF Contains(text, kw_minggu) THEN rule_minggu(ts, now)
  ELSE IF Contains(text, kw_besok) THEN rule_besok(ts, now)
  ELSE IF IsCount(text) THEN rule_count(ts)
  ELSE IF IsList(text) THEN rule_list(ts, prof)
  ELSE rule_lookup(text, ts, prof)

Commands(text, ts, prof, now) ==
  IF StartsWith(text, kw_hapus) THEN rule_hapus(text, ts)
  ELSE IF StartsWith(text, kw_selesai) THEN rule_selesai(text, ts)
  ELSE Queries(text, ts, prof, now)

SmallTalk(text, ts, prof, now) ==
  IF IsGreeting(text) THEN Plain(1, "greet", ts)
  ELSE IF IsIdentity(text) THEN Plain(2, "identity", ts)
  ELSE IF IsWellBeing(text) THEN Plain(3, "wellbeing", ts)
  ELSE Commands(text, ts, prof, now)

ai_process(q, ts, prof, now) == SmallTalk(Strip(Lower(q)), ts, prof, now)

(***************************************************************************)
(* The store and the handlers.                                             *)
(***************************************************************************)
\* tasks.json is read whole and written whole
load_tasks(file) == file
save_tasks(ts) == ts

\* a deadline as a request supplies it: a string fromisoformat accepts
\* ("iso"), one that only strptime("%Y-%m-%d") accepts ("ymd", such as
\* 2025-1-5), one that neither accepts ("bad"), or the empty string
IsoNaive(t) == [form |-> "iso", kind |-> "naive", t |-> t]
IsoAware(t) == [form |-> "iso", kind |-> "aware", t |-> t]
Ymd(day) == [form |-> "ymd", kind |-> "naive", t |-> day * DayLen]
BadInput == [form |-> "bad", kind |-> "bad", t |-> 0]
EmptyInput == [form |-> "empty", kind |-> "bad", t |-> 0]

\* datetime.fromisoformat(s).isoformat(): keeps the UTC offset when there is one
fromisoformat(d) == [ok |-> d.form = "iso", val |-> [kind |-> d.kind, t |-> d.t]]

\* datetime.strptime(s, "%Y-%m-%d").isoformat()
strptime_ymd(d) == [ok |-> d.form = "ymd", val |-> Naive(d.t)]

\* "t" + now.strftime("%Y%m%d%H%M%S%f")
new_id(now) == now

Outcome(status, store) == [status |-> status, store |-> store]

\* POST /api/tasks
api_tasks_post(file, payload, now) ==
  LET ts == load_tasks(file)
      name == Strip(payload.name)
      iso == fromisoformat(payload.deadline)
      ymd == strptime_ymd(payload.deadline)
      t(dl) == [id |-> new_id(now), name |-> name, deadline |-> dl,
                priority |-> "medium", note |-> "", done |-> FALSE]
  IN  IF name = <<>> \/ payload.deadline.form = "empty" THEN Outcome(400, file)
      ELSE IF iso.ok THEN Outcome(200, save_tasks(Append(ts, t(iso.val))))
      ELSE IF ymd.ok THEN Outcome(200, save_tasks(Append(ts, t(ymd.val))))
      ELSE Outcome(400, file)

\* DELETE /api/tasks
api_tasks_clear(file) == Outcome(200, save_tasks(<<>>))

HasId(ts, id) == \E i \in 1..Len(ts) : ts[i].id = id

\* PATCH /api/tasks/<task_id>: data.keys are the fields the body holds
patch_task(t, data) ==
  LET d1 == IF "done" \in data.keys THEN [t EXCEPT !.done = data.done] ELSE t
      d2 == IF "name" \in data.keys THEN [d1 EXCEPT !.name = data.name] ELSE d1
      iso == fromisoformat(data.deadline)
      d3 == IF "deadline" \in data.keys /\ iso.ok
            THEN [d2 EXCEPT !.deadline = iso.val] ELSE d2
      d4 == IF "priority" \in data.keys
            THEN [d3 EXCEPT !.priority = data.priority] ELSE d3
      d5 == IF "note" \in data.keys THEN [d4 EXCEPT !.note = data.note] ELSE d4
  IN  d5

api_task_patch(file, id, data) ==
  LET ts == load_tasks(file)
  IN  IF ~HasId(ts, id) THEN Outcome(404, file)
      ELSE LET f == Least({i \in 1..Len(ts) : ts[i].id = id})
           IN  Outcome(200, save_tasks([ts EXCEPT ![f] = patch_task(ts[f], data)]))

\* DELETE /api/tasks/<task_id>
api_task_delete(file, id) ==
  LET ts == load_tasks(file)
  IN  IF ~HasId(ts, id) THEN Outcome(404, file)
      ELSE Outcome(200, save_tasks(SelectSeq(ts, LAMBDA t : t.id # id)))

\* POST /api/subscribe
api_subscribe(prof, plan) ==
  IF plan \notin {"basic", "pro"} THEN [status |-> 400, profile |-> prof]
  ELSE [status |-> 200, profile |-> [prof EXCEPT !.plan = plan]]

\* a caller that saves after every reply
query_finish_always_save(file, res) ==
  IF res.raised
  THEN [status |-> 500, store |-> file, res |-> res, saved |-> FALSE]
  ELSE [status |-> 200, store |-> save_tasks(res.mem), res |-> res, saved |-> TRUE]

\* what /api/query does with the list ai_process worked on: saved when the
\* reply is a dict carrying _save; an exception is answered 500, nothing saved
query_finish(file, res) ==
  IF res.raised
  THEN [status |-> 500, store |-> file, res |-> res, saved |-> FALSE]
  ELSE IF res.save
  THEN [status |-> 200, store |-> save_tasks(res.mem), res |-> res, saved |-> TRUE]
  ELSE [status |-> 200, store |-> file, res |-> res, saved |-> FALSE]

\* POST /api/query
api_query(file, q, prof, now) ==
  IF Strip(q) = <<>>
  THEN [status |-> 400, store |-> file, res |-> NoRes, saved |-> FALSE]
  ELSE query_finish(file, ai_process(Strip(q), load_tasks(file), prof, now))

(***************************************************************************)
(* Inputs of the requests.                                                 *)
(***************************************************************************)
Sp == <<" ">>
w_pr == <<"p","r">>
w_tugas == <<"t","u","g","a","s">>
w_kapan == <<"k","a","p","a","n">>
w_xyz == <<"x","y","z">>

n_PR == <<"P","R">>
n_hapus_PR == kw_hapus \o Sp \o n_PR

\* the clock at start-up: the first instant of a day
ClockStart == DayLen
WeekEnd == ClockStart + WeekDays * DayLen

\* query texts that reach every rule, with texts two rules compete for
Texts ==
  { kw_halo, kw_siapa_kamu, kw_apa_kabar,
    kw_hapus \o Sp \o w_pr,
    kw_hapus \o Sp \o kw_hapus \o Sp \o w_pr,
    <<" ","H","A","P","U","S"," "," ","P","R"," ">>,
    kw_hapus \o Sp \o kw_hi,
    kw_hapus \o Sp \o w_xyz,
    kw_selesai \o Sp \o w_pr,
    kw_selesai \o Sp \o kw_selesai \o Sp \o w_pr,
    kw_selesai \o Sp \o kw_apa_kabar,
    kw_deadline_terdekat,
    kw_terdekat \o Sp \o kw_minggu,
    w_tugas \o Sp \o kw_minggu,
    kw_minggu \o Sp \o kw_besok,
    w_tugas \o Sp \o kw_besok,
    kw_berapa \o Sp \o w_tugas,
    kw_jumlah \o Sp \o kw_semua,
    kw_semua \o Sp \o w_pr,
    w_kapan \o Sp \o w_pr,
    w_xyz,
    <<" ">> }

\* the texts of the delete and mark-done commands
CommandTexts ==
  { kw_hapus \o Sp \o w_pr,
    kw_hapus \o Sp \o kw_hapus \o Sp \o w_pr,
    kw_hapus,
    kw_selesai \o Sp \o w_pr,
    kw_selesai \o Sp \o kw_selesai \o Sp \o w_pr,
    <<"S","e","l","e","s","a","i"," ","H","A","P","U","S">> }

\* the texts of the deadline queries
DateTexts ==
  { kw_deadline_terdekat, w_tugas \o Sp \o kw_minggu, w_tugas \o Sp \o kw_besok }

Post(name, deadline) == [name |-> name, deadline |-> deadline]

PostPayloads ==
  { Post(n_PR, IsoNaive(ClockStart)),
    Post(n_PR, IsoAware(ClockStart + DayLen)),
    Post(Sp \o n_hapus_PR \o Sp, IsoNaive(WeekEnd + 1)),
    Post(Sp, IsoNaive(ClockStart)),
    Post(n_PR, EmptyInput) }

CommandPosts ==
  { Post(n_PR, IsoNaive(ClockStart)),
    Post(Sp \o n_hapus_PR \o Sp, Ymd(WeekDays + 2)) }

DatePosts ==
  { Post(n_PR, d) :
      d \in {IsoNaive(ClockStart), IsoNaive(WeekEnd), IsoNaive(WeekEnd + 1),
             IsoAware(ClockStart + DayLen), BadInput} }

StorePosts ==
  { Post(n_PR, IsoNaive(ClockStart)), Post(n_PR, Ymd(WeekDays + 2)),
    Post(n_PR, BadInput), Post(n_PR, EmptyInput), Post(Sp, IsoNaive(ClockStart)) }

Patch(keys, done, name, deadline) ==
  [keys |-> keys, done |-> done, name |-> name, deadline |-> deadline,
   priority |-> "high", note |-> ""]

PatchDone == Patch({"done"}, TRUE, <<>>, EmptyInput)
PatchUndone == Patch({"done"}, FALSE, <<>>, EmptyInput)
PatchNameEmpty == Patch({"name"}, FALSE, <<>>, EmptyInput)
PatchNameNull == Patch({"name"}, FALSE, NullName, EmptyInput)
PatchBadDeadline == Patch({"deadline", "done"}, TRUE, <<>>, BadInput)
PatchDeadline ==
  Patch({"deadline", "priority", "note"}, FALSE, <<>>, IsoNaive(ClockStart - 1))

PatchPayloads == {PatchDone, PatchNameNull}
CommandPatches == {PatchDone, PatchNameNull}
DatePatches == {PatchDone, PatchDeadline}
StorePatches ==
  {PatchDone, PatchUndone, PatchNameEmpty, PatchNameNull, PatchBadDeadline,
   PatchDeadline}

Plans == {"basic", "pro", "gold"}

Ids == ClockStart..(ClockStart + MaxClock)

\* the threads of the development server (app.run is threaded)
Workers == {1, 2}

(***************************************************************************)
(* The state: tasks is the content of tasks.json, profile that of          *)
(* profile.json, clock what datetime.now() returns.  last is the request   *)
(* the server has just handled, until its response is sent (pre: the store *)
(* the handler found); the server handles the next request after that.     *)
(* reqs holds the requests in flight when handlers run in several threads. *)
(***************************************************************************)
Done(op, status, text, pre, res, saved, bad) ==
  [op |-> op, status |-> status, text |-> text, pre |-> pre, res |-> res,
   saved |-> saved, badDeadline |-> bad]

NoLast == Done("none", 0, <<>>, <<>>, NoRes, FALSE, FALSE)

Idle == [pc |-> "idle", kind |-> "none", q |-> <<>>,
         payload |-> [name |-> <<>>, deadline |-> EmptyInput], mem |-> <<>>]

Init ==
  /\ tasks = <<>>
  /\ profile = [plan |-> "basic"]
  /\ clock = ClockStart
  /\ last = NoLast
  /\ reqs = [w \in Workers |-> Idle]

Tick ==
  /\ last = NoLast
  /\ clock < ClockStart + MaxClock
  /\ clock' = clock + 1
  /\ UNCHANGED <<tasks, profile, last, reqs>>

Unparseable(d) == ~fromisoformat(d).ok /\ ~strptime_ymd(d).ok

\* the request takes time: the next reading of the clock is a later instant
PostTask(payload) ==
  /\ last = NoLast
  /\ Len(tasks) < MaxTasks
  /\ clock < ClockStart + MaxClock
  /\ clock' = clock + 1
  /\ LET out == api_tasks_post(tasks, payload, clock)
     IN  /\ tasks' = out.store
         /\ last' = Done("post", out.status, <<>>, tasks, NoRes,
                         out.status = 200, Unparseable(payload.deadline))
  /\ UNCHANGED <<profile, reqs>>

PatchTask(id, data) ==
  /\ last = NoLast
  /\ LET out == api_task_patch(tasks, id, data)
     IN  /\ tasks' = out.store
         /\ last' = Done("patch", out.status, <<>>, tasks, NoRes,
                         out.status = 200,
                         "deadline" \in data.keys /\ Unparseable(data.deadline))
  /\ UNCHANGED <<profile, clock, reqs>>

DeleteTask(id) ==
  /\ last = NoLast
  /\ LET out == api_task_delete(tasks, id)
     IN  /\ tasks' = out.store
         /\ last' = Done("delete", out.status, <<>>, tasks, NoRes,
                         out.status = 200, FALSE)
  /\ UNCHANGED <<profile, clock, reqs>>

ClearTasks ==
  /\ last = NoLast
  /\ tasks' = api_tasks_clear(tasks).store
  /\ last' = Done("clear", 200, <<>>, tasks, NoRes, TRUE, FALSE)
  /\ UNCHANGED <<profile, clock, reqs>>

Subscribe(plan) ==
  /\ last = NoLast
  /\ LET out == api_subscribe(profile, plan)
     IN  /\ profile' = out.profile
         /\ last' = Done("subscribe", out.status, <<>>, tasks, NoRes, FALSE, FALSE)
  /\ UNCHANGED <<tasks, clock, reqs>>

Query(q) ==
  /\ last = NoLast
  /\ LET out == api_query(tasks, q, profile, clock)
     IN  /\ tasks' = out.store
         /\ last' = Done("query", out.status, q, tasks, out.res, out.saved, FALSE)
  /\ UNCHANGED <<profile, clock, reqs>>

\* the response leaves the server
Respond ==
  /\ last # NoLast
  /\ last' = NoLast
  /\ UNCHANGED <<tasks, profile, clock, reqs>>

Step(texts, posts, patches) ==
  \/ Tick
  \/ Respond
  \/ \E payload \in posts : PostTask(payload)
  \/ \E id \in Ids, data \in patches : PatchTask(id, data)
  \/ \E id \in Ids : DeleteTask(id)
  \/ ClearTasks
  \/ \E plan \in Plans : Subscribe(plan)
  \/ \E q \in texts : Query(q)

\* every rule of the interpreter, on a store of tasks named PR
Next == Step(Texts, PostPayloads, PatchPayloads)
Spec == Init /\ [][Next]_vars

\* the delete and mark-done commands, on tasks of several names
NextCommands == Step(CommandTexts, CommandPosts, CommandPatches)
SpecCommands == Init /\ [][NextCommands]_vars

\* the deadline queries, on tasks of several deadlines
NextDates == Step(DateTexts, DatePosts, DatePatches)
SpecDates == Init /\ [][NextDates]_vars

\* the handlers that write the store, with every kind of body
NextStore == Step({w_kapan \o Sp \o w_pr}, StorePosts, StorePatches)
SpecStore == Init /\ [][NextStore]_vars

(***************************************************************************)
(* Handlers running in several threads.  A handler reads tasks.json when   *)
(* it starts (load_tasks) and writes it when it ends (save_tasks); nothing *)
(* in the program keeps another thread from running in between.            *)
(***************************************************************************)
Request(kind, q, payload) ==
  [pc |-> "loaded", kind |-> kind, q |-> q, payload |-> payload, mem |-> <<>>]

ConcRequests ==
  { Request("query", kw_selesai \o Sp \o w_pr, Idle.payload),
    Request("query", kw_hapus \o Sp \o w_pr, Idle.payload),
    Request("query", kw_berapa \o Sp \o w_tugas, Idle.payload),
    Request("post", <<>>, Post(n_PR, IsoNaive(ClockStart))) }

\* the handler starts: tasks = load_tasks()
Begin(w, r) ==
  /\ reqs[w].pc = "idle"
  /\ r.kind = "post" => Len(tasks) < MaxTasks /\ clock < ClockStart + MaxClock
  /\ reqs' = [reqs EXCEPT ![w] = [r EXCEPT !.mem = load_tasks(tasks)]]
  /\ clock' = IF r.kind = "post" THEN clock + 1 ELSE clock
  /\ UNCHANGED <<tasks, profile, last>>

\* what the handler of r writes when it ends: the list and whether it is saved
Written(r, prof, now) ==
  IF r.kind = "post"
  THEN LET out == api_tasks_post(r.mem, r.payload, now)
       IN  [saved |-> out.status = 200, store |-> out.store]
  ELSE LET out == query_finish(r.mem, ai_process(r.q, r.mem, prof, now))
       IN  [saved |-> out.saved, store |-> out.store]

\* the handler ends: save_tasks(...) when it has something to save
Finish(w) ==
  /\ reqs[w].pc = "loaded"
  /\ LET out == Written(reqs[w], profile, clock)
     IN  tasks' = IF out.saved THEN out.store ELSE tasks
  /\ reqs' = [reqs EXCEPT ![w] = Idle]
  /\ UNCHANGED <<profile, clock, last>>

NextConc ==
  \/ \E w \in Workers, r \in ConcRequests : Begin(w, r)
  \/ \E w \in Workers : Finish(w)

SpecConc == Init /\ [][NextConc]_vars

(***************************************************************************)
(* What the specification says of a query, stated on the request just      *)
(* handled: last.text is the text, last.pre the store before, last.res     *)
(* what ai_process returned, tasks the store after.                        *)
(***************************************************************************)
Norm(q) == Strip(Lower(q))

Answered == last.op = "query" /\ last.status # 400

\* the predicate of rule k of the specification's list, 1..12
RuleHolds(k, text, ts) ==
  CASE k = 1 -> \/ Contains(text, kw_halo) \/ Contains(text, kw_hai)
                \/ Contains(text, kw_hello) \/ Contains(text, kw_hi)
    [] k = 2 -> Contains(text, kw_siapa_kamu) \/ Contains(text, kw_kamu_siapa)
    [] k = 3 -> Contains(text, kw_apa_kabar)
    [] k = 4 -> Len(text) >= 5 /\ SubSeq(text, 1, 5) = kw_hapus
    [] k = 5 -> Len(text) >= 7 /\ SubSeq(text, 1, 7) = kw_selesai
    [] k = 6 -> Contains(text, kw_terdekat)
    [] k = 7 -> Contains(text, kw_minggu)
    [] k = 8 -> Contains(text, kw_besok)
    [] k = 9 -> Contains(text, kw_berapa) \/ Contains(text, kw_jumlah)
    [] k = 10 -> \/ Contains(text, kw_tampilkan) \/ Contains(text, kw_semua)
                 \/ Contains(text, kw_daftar)
    [] k = 11 -> \E i \in 1..Len(ts) :
                   NameIsStr(ts[i]) /\ Contains(text, Lower(ts[i].name))
    [] OTHER -> TRUE

FirstRule(text, ts) == Least({k \in 1..12 : RuleHolds(k, text, ts)})

\* the replies rule k can give
RuleReplies(k) ==
  CASE k = 1 -> {"greet"}
    [] k = 2 -> {"identity"}
    [] k = 3 -> {"wellbeing"}
    [] k = 4 -> {"deleted", "ambiguous", "notfound"}
    [] k = 5 -> {"done", "notfound"}
    [] k = 6 -> {"nearest", "nonearest"}
    [] k = 7 -> {"week", "noweek"}
    [] k = 8 -> {"tomorrow", "notomorrow"}
    [] k = 9 -> {"count"}
    [] k = 10 -> {"empty", "list", "list_pro"}
    [] k = 11 -> {"lookup", "lookup_pro"}
    [] OTHER -> {"fallback"}

\* the remainder x of a command "<kw> <x>": the text after the prefix
Remainder(text, kw) == Strip(SubSeq(text, Len(kw) + 1, Len(text)))

\* the tasks whose name contains x, case-insensitively
NameMatches(ts, x) ==
  {i \in 1..Len(ts) : NameIsStr(ts[i]) /\ Contains(Lower(ts[i].name), x)}

RemoveAt(ts, i) == SubSeq(ts, 1, i - 1) \o SubSeq(ts, i + 1, Len(ts))

IsDeleteCommand == Answered /\ FirstRule(Norm(last.text), last.pre) = 4
IsDoneCommand == Answered /\ FirstRule(Norm(last.text), last.pre) = 5

\* C1: every query that reaches ai_process comes back with a reply: no
\* exception leaves ai_process, whatever the tasks and their deadlines are.
C1_NeverRaises ==
  Answered => ~last.res.raised /\ last.res.reply.kind # "none"

\* C2: "hapus <x>" with x in the name of exactly one task removes that task
\* and only it, keeps the others in order, sets _save and names the task.
C2_DeleteSingleMatch ==
  IsDeleteCommand =>
    LET M == NameMatches(last.pre, Remainder(Norm(last.text), kw_hapus))
    IN  Cardinality(M) = 1 =>
          /\ tasks = RemoveAt(last.pre, Least(M))
          /\ last.res.mem = tasks
          /\ last.res.save
          /\ last.res.reply.kind = "deleted"
          /\ last.res.reply.names = <<last.pre[Least(M)].name>>

\* C3: "hapus <x>" with x in the name of no task, or of N > 1 tasks, leaves
\* the collection as it was, sets no _save, and for N > 1 reports N.
C3_DeleteNoSingleMatch ==
  IsDeleteCommand =>
    LET N == Cardinality(NameMatches(last.pre, Remainder(Norm(last.text), kw_hapus)))
    IN  N # 1 =>
          /\ tasks = last.pre
          /\ last.res.mem = last.pre
          /\ ~last.res.save
          /\ N > 1 => last.res.reply.kind = "ambiguous" /\ last.res.reply.n = N

\* C4: "selesai <x>" sets done on the first task whose name contains x and
\* changes nothing else, with _save; when no name contains x no done field
\* changes and there is no _save.
C4_MarkDoneFirstMatch ==
  IsDoneCommand =>
    LET M == NameMatches(last.pre, Remainder(Norm(last.text), kw_selesai))
    IN  IF M # {}
        THEN /\ tasks = [last.pre EXCEPT ![Least(M)].done = TRUE]
             /\ last.res.save
        ELSE /\ tasks = last.pre
             /\ ~last.res.save

\* C5: the rule that runs and the reply that is returned are those of the
\* lowest-numbered rule whose predicate holds on the normalized text, and no
\* rule but 4 and 5 changes or saves anything.
C5_FirstMatchWins ==
  Answered =>
    LET k == FirstRule(Norm(last.text), last.pre)
    IN  /\ last.res.rule = k
        /\ last.res.reply.kind \in RuleReplies(k)
        /\ k \notin {4, 5} => tasks = last.pre /\ ~last.res.save

\* The order of the rules alone: the rule that runs is the lowest-numbered
\* one whose predicate holds (when a name that is not a string stops the name
\* scan of rule 11, rule 11 is the one that ran), and a reply that is
\* returned is one of that rule's.
DispatchOrder ==
  Answered =>
    LET k == FirstRule(Norm(last.text), last.pre)
    IN  /\ k <= 10 => last.res.rule = k
        /\ k >= 11 => last.res.rule = IF last.res.raised THEN 11 ELSE k
        /\ ~last.res.raised => last.res.reply.kind \in RuleReplies(last.res.rule)
        /\ k \notin {4, 5} => tasks = last.pre /\ ~last.res.save

\* C6: /api/query calls save_tasks exactly when ai_process removed the single
\* match of a delete or marked the match of a mark-done; after any other
\* outcome the list handed to ai_process and the store are as they were.
C6_SaveIffMutation ==
  last.op = "query" =>
    LET mutated == last.res.branch \in {"deleted", "done"}
    IN  /\ last.saved <=> mutated
        /\ mutated => tasks = last.res.mem
        /\ ~mutated => tasks = last.pre
        /\ ~mutated /\ Answered => last.res.mem = last.pre

\* a mark-done with two tasks in the store was saved: the first is now done
C6_Witness ==
  /\ last.op = "query"
  /\ last.res.branch = "done"
  /\ last.saved
  /\ Len(last.pre) = 2
  /\ ~last.pre[1].done
  /\ tasks = [last.pre EXCEPT ![1].done = TRUE]

\* the tasks rule 6 chooses among: not done, deadline parseable
Upcoming(ts) == {i \in 1..Len(ts) : ~ts[i].done /\ ts[i].deadline.kind # "bad"}

\* C7: a "terdekat" query names a task that is not done, has a parseable
\* deadline and has the earliest such deadline (the first in collection order
\* among equals); with no such task it gives the "no upcoming" reply; the
\* collection is not changed.
C7_NearestDeadline ==
  (Answered /\ FirstRule(Norm(last.text), last.pre) = 6) =>
    LET U == Upcoming(last.pre)
    IN  /\ tasks = last.pre
        /\ IF U = {} THEN last.res.reply.kind = "nonearest"
           ELSE /\ last.res.reply.kind = "nearest"
                /\ \E i \in U :
                     /\ last.res.reply.names = <<last.pre[i].name>>
                     /\ \A j \in U :
                          \/ last.pre[i].deadline.t < last.pre[j].deadline.t
                          \/ last.pre[i].deadline.t = last.pre[j].deadline.t /\ i <= j

\* C8: a "minggu" query lists, in collection order, exactly the tasks that
\* are not done and whose parseable deadline d has S <= d <= S + 7 days, S the
\* start of today; with none it gives the "none this week" reply.
C8_WeekWindow ==
  (Answered /\ FirstRule(Norm(last.text), last.pre) = 7) =>
    LET S == (clock \div DayLen) * DayLen
        want == SelectSeq(last.pre, LAMBDA t :
                  /\ ~t.done
                  /\ t.deadline.kind # "bad"
                  /\ S <= t.deadline.t
                  /\ t.deadline.t <= S + 7 * DayLen)
    IN  IF want = <<>> THEN last.res.reply.kind = "noweek"
        ELSE /\ last.res.reply.kind = "week"
             /\ last.res.reply.names = [i \in 1..Len(want) |-> want[i].name]

\* C9: in every store reached from the empty one the ids are pairwise
\* distinct, every name is a non-empty string and every deadline is
\* parseable; a create or update whose deadline is unparseable is rejected,
\* not applied.
C9_StoreInvariant ==
  /\ \A i, j \in 1..Len(tasks) : tasks[i].id = tasks[j].id => i = j
  /\ \A i \in 1..Len(tasks) :
       /\ tasks[i].name # NullName
       /\ tasks[i].name # <<>>
       /\ tasks[i].deadline.kind # "bad"
  /\ last.badDeadline => last.status # 200 /\ tasks = last.pre

\* what request r makes of the list ts it works on
Effect(r, ts) == Written([r EXCEPT !.mem = ts], profile, clock)

\* C10: between the load_tasks and the save_tasks of an /api/query request
\* that changes the list no other request writes the store, so that what is
\* saved is the request's change applied to the store as it is when it saves.
C10_Serialized ==
  \A w \in Workers :
    (/\ reqs[w].pc = "loaded"
     /\ reqs[w].kind = "query"
     /\ Effect(reqs[w], reqs[w].mem).saved) =>
      /\ tasks = reqs[w].mem
      /\ Effect(reqs[w], reqs[w].mem).store = Effect(reqs[w], tasks).store

====
